---- MODULE Spec2Model ----
(***************************************************************************)
(* A model of the GPSS bytecode interpreter of src/interpreter.rs: the     *)
(* Interpreter struct, its event queue and the dispatch loop `process`.    *)
(* One step of the model is one iteration of the loop in `process`, i.e.   *)
(* one call of process_instruction from the top level together with every  *)
(* call it makes (generate/advance/terminate, perform_closest, the prefix  *)
(* re-run of process_from_to and the instructions that re-run executes).   *)
(*                                                                         *)
(* Indices (current_instruction, memory addresses, jump targets) are       *)
(* 0-based as in the source; TLA+ sequences are 1-based, so Instr and      *)
(* MemAt add one.                                                          *)
(***************************************************************************)
EXTENDS Integers, Sequences, FiniteSets, TLC

VARIABLES
    instructions,         \* Vec<Instructions>, never modified after construction
    current_instruction,  \* usize
    current_transact,     \* Option<Transact>
    start_entities,       \* u32
    current_time,         \* u64
    events,               \* BinaryHeap<Event>: the pending events, in push order
    memory,               \* Vec<GpssType>
    stack,                \* Vec<GpssType>
    stdout,               \* the lines written by println!
    panicked,             \* "" while the process runs, else the panic that aborted it
    overflow_checks,      \* build profile: TRUE = checked arithmetic (debug), FALSE = wrapping (release)
    program,              \* the arguments the interpreter was built from
    popped,               \* history: the dequeues made by the last step, in order
    replayed,             \* history: the instruction indices process_from_to executed
                          \* in the last step, in order
    n_generate,           \* history: number of "DOING GENERATE" so far
    n_terminate,          \* history: number of "TERMINATE" so far
    zeroed                \* history: the state right after the terminate call that
                          \* first left start_entities = 0 (None before that)

vars == <<instructions, current_instruction, current_transact, start_entities,
          current_time, events, memory, stack, stdout, panicked, overflow_checks,
          program, popped, replayed, n_generate, n_terminate, zeroed>>

(***************************************************************************)
(* Bounds of the model.                                                    *)
(***************************************************************************)
\* the outer loop is followed while current_time <= MaxClock
MaxClock == 200
\* rand::random::<i32>() is drawn from 0..MaxRand
MaxRand == 1
\* the scenario programs are run with START counts 1..MaxStarts
MaxStarts == 3
\* start_entities is a u32 that wraps at 2^32; TLC's integers end below that, so
\* the model's counter wraps at WrapAt.  current_time is a u64 and stays far
\* below 2^64 within MaxClock, so its additions are exact.
WrapAt == 65536

(***************************************************************************)
(* Values.                                                                 *)
(***************************************************************************)
\* A Float(f32) of the program is modelled exactly as the rational val/FloatDen
\* seconds, so that the conversion to milliseconds truncates.
FloatDen == 10000

None == <<>>
Some(x) == <<x>>

Boolean(b) == [tag |-> "Boolean", val |-> IF b THEN 1 ELSE 0]
Float(f) == [tag |-> "Float", val |-> f]
Integer(i) == [tag |-> "Integer", val |-> i]
Facility(c) == [tag |-> "Facility", val |-> c]
UnsignedInteger(u) == [tag |-> "UnsignedInteger", val |-> u]

\* GpssType::empty()
GpssEmpty == Boolean(FALSE)

\* impl From<GpssType> for f32 / u32 / bool: defined for the one tag, panics otherwise
IsFloat(v) == v.tag = "Float"
IsUnsigned(v) == v.tag = "UnsignedInteger"
IsBoolean(v) == v.tag = "Boolean"

NParams == 16
\* Transact::empty().  `serial` is history: it tells the transacts apart, which
\* the program cannot do (two transacts may hold equal parameters); 0 = unset.
TransactEmpty == [params |-> [i \in 1..NParams |-> GpssEmpty], serial |-> 0]
\* the transact minted by a resumed Generate: params[0] = Integer(r)
NewTransact(r) == [TransactEmpty EXCEPT !.params[1] = Integer(r)]
RandVals == 0..MaxRand

(***************************************************************************)
(* Instructions.                                                           *)
(***************************************************************************)
Generate(begin) == [op |-> "Generate", arg |-> begin]
Advance(begin) == [op |-> "Advance", arg |-> begin]
Terminate(begin) == [op |-> "Terminate", arg |-> begin]
Print_(var_id) == [op |-> "Print", arg |-> var_id]
PrintClock == [op |-> "PrintClock", arg |-> 0]
Transfer(instruction_id) == [op |-> "Transfer", arg |-> instruction_id]
TestVar(else_goto) == [op |-> "TestVar", arg |-> else_goto]
SaveValue(var_id) == [op |-> "SaveValue", arg |-> var_id]
Push(var_id) == [op |-> "Push", arg |-> var_id]

Instr(i) == instructions[i + 1]
MemAt(mem, i) == mem[i + 1]

\* the conversion with the factor 100
fraction_time_to_int_centi(t) == IF t < 0 THEN 0 ELSE (t * 100) \div FloatDen

\* (t * 1000.0) as u64: truncates toward zero, a negative value saturates to 0
fraction_time_to_int(t) == IF t < 0 THEN 0 ELSE (t * 1000) \div FloatDen

(***************************************************************************)
(* The interpreter as a record, for the operators that compute a step.     *)
(***************************************************************************)
Self ==
    [current_instruction |-> current_instruction,
     current_transact |-> current_transact,
     start_entities |-> start_entities,
     current_time |-> current_time,
     events |-> events,
     memory |-> memory,
     stack |-> stack,
     stdout |-> stdout,
     panicked |-> panicked,
     popped |-> <<>>,
     replayed |-> <<>>,
     n_generate |-> n_generate,
     n_terminate |-> n_terminate,
     zeroed |-> zeroed]

\* panic!: the process aborts; the state it leaves is never used again
Panic(self, msg) == [self EXCEPT !.panicked = msg]

StackTop(self) == self.stack[Len(self.stack)]
StackRest(self) == [self EXCEPT !.stack = SubSeq(@, 1, Len(@) - 1)]

\* what the rest of the program can observe of the interpreter
Observable(self) ==
    [current_time |-> self.current_time,
     memory |-> self.memory,
     stack |-> self.stack,
     events |-> self.events,
     current_transact |-> self.current_transact,
     stdout |-> self.stdout]

(***************************************************************************)
(* The event queue.  BinaryHeap::pop returns a greatest element under      *)
(* Event's Ord, which compares other.wake_time with self.wake_time, so a   *)
(* greatest element is one of least wake_time.  Which of several equal     *)
(* elements a binary heap returns is not specified: every one of them is   *)
(* a possible outcome.                                                     *)
(***************************************************************************)
\* a plain Vec used as the queue: pops the event pushed last
PopCandidatesLast(evs) == {Len(evs)}

\* a heap under the unreversed order: pops an event of greatest wake_time
PopCandidatesLatest(evs) ==
    {i \in 1..Len(evs) : \A j \in 1..Len(evs) : evs[i].wake_time >= evs[j].wake_time}

PopCandidates(evs) ==
    {i \in 1..Len(evs) : \A j \in 1..Len(evs) : evs[i].wake_time <= evs[j].wake_time}

RemoveAt(seq, i) == SubSeq(seq, 1, i - 1) \o SubSeq(seq, i + 1, Len(seq))

create_event(self, instruction_id, wake_time, transact) ==
    [self EXCEPT !.events = Append(@, [instruction_id |-> instruction_id,
                                       wake_time |-> wake_time,
                                       transact |-> transact])]

(***************************************************************************)
(* The instructions that complete without the scheduler.                   *)
(***************************************************************************)
print(self, var_id) ==
    IF var_id >= Len(self.memory)
    THEN Panic(self, "index out of bounds")
    ELSE [self EXCEPT !.stdout = Append(@, [line |-> MemAt(self.memory, var_id).tag,
                                            val |-> MemAt(self.memory, var_id).val]),
                      !.current_instruction = @ + 1]

print_clock(self) ==
    [self EXCEPT !.stdout = Append(@, [line |-> "Clock", val |-> self.current_time]),
                 !.current_instruction = @ + 1]

\* a transfer that lands one instruction behind its target
transfer_past(self, instruction_id) ==
    [self EXCEPT !.current_instruction = instruction_id + 1]

transfer(self, instruction_id) ==
    [self EXCEPT !.current_instruction = instruction_id]

\* a test_var with its two branches swapped
test_var_inverted(self, else_goto, cond_result) ==
    IF cond_result
    THEN [self EXCEPT !.current_instruction = else_goto]
    ELSE [self EXCEPT !.current_instruction = @ + 1]

\* a test_var that falls through on either outcome
test_var_fallthrough(self, else_goto, cond_result) ==
    [self EXCEPT !.current_instruction = @ + 1]

test_var(self, else_goto, cond_result) ==
    IF cond_result
    THEN [self EXCEPT !.current_instruction = @ + 1]
    ELSE [self EXCEPT !.current_instruction = else_goto]

\* a save_value that appends at any address past the end
save_value_fills_hole(self, var_id, object) ==
    IF Len(self.memory) > var_id
    THEN [self EXCEPT !.memory[var_id + 1] = object, !.current_instruction = @ + 1]
    ELSE [self EXCEPT !.memory = Append(@, object), !.current_instruction = @ + 1]

save_value(self, var_id, object) ==
    IF Len(self.memory) > var_id
    THEN [self EXCEPT !.memory[var_id + 1] = object, !.current_instruction = @ + 1]
    ELSE IF Len(self.memory) = var_id
    THEN [self EXCEPT !.memory = Append(@, object), !.current_instruction = @ + 1]
    ELSE Panic(self, "Cannot access variable")

\* a push that counts memory cells from 1
push_one_based(self, var_id) ==
    IF var_id = 0 \/ var_id > Len(self.memory)
    THEN Panic(self, "index out of bounds")
    ELSE [self EXCEPT !.stack = Append(@, self.memory[var_id]),
                      !.current_instruction = @ + 1]

push(self, var_id) ==
    IF var_id >= Len(self.memory)
    THEN Panic(self, "index out of bounds")
    ELSE [self EXCEPT !.stack = Append(@, MemAt(self.memory, var_id)),
                      !.current_instruction = @ + 1]

(***************************************************************************)
(* The scheduler and the instructions that call it.  Each operator yields  *)
(* the set of states the call can return in (or abort in, panicked # ""):  *)
(* the outcomes differ by the event a tie dequeues and by the random       *)
(* parameter of a new transact.                                            *)
(***************************************************************************)
RECURSIVE process_instruction(_)
RECURSIVE perform_closest(_)
RECURSIVE process_from_to_loop(_, _)

\* the `while` of process_from_to; a panic inside unwinds through it
process_from_to_loop(self, end) ==
    IF self.panicked # "" \/ ~(self.current_instruction < end)
    THEN {self}
    ELSE UNION {process_from_to_loop(
                    IF t.panicked # "" THEN t
                    ELSE [t EXCEPT !.current_instruction = @ + 1], end)
                : t \in process_instruction(
                            [self EXCEPT !.replayed = Append(@, self.current_instruction)])}

process_from_to(self, start, end) ==
    process_from_to_loop([self EXCEPT !.current_instruction = start], end)

\* a resumption of Generate that does not schedule the next arrival
Resume_no_rearm(self, nearest_event) ==
    IF self.panicked # "" THEN {self}
    ELSE IF Instr(nearest_event.instruction_id).op = "Generate"
    THEN IF self.stack = <<>>
         THEN {Panic(self, "Stack is empty, but trying to pop")}
         ELSE IF ~IsFloat(StackTop(self))
         THEN {Panic(StackRest(self), "Cannot convert type to boolean")}
         ELSE LET s1 == StackRest(self)
              IN {[s1 EXCEPT !.current_transact =
                                 Some([NewTransact(r) EXCEPT !.serial = s1.n_generate + 1]),
                             !.n_generate = @ + 1,
                             !.current_instruction = nearest_event.instruction_id + 1]
                  : r \in RandVals}
    ELSE {[self EXCEPT !.current_instruction = nearest_event.instruction_id + 1]}

\* the second `match` of perform_closest, after the prefix re-run
Resume(self, nearest_event) ==
    IF self.panicked # "" THEN {self}
    ELSE IF Instr(nearest_event.instruction_id).op = "Generate"
    THEN IF self.stack = <<>>
         THEN {Panic(self, "Stack is empty, but trying to pop")}
         ELSE IF ~IsFloat(StackTop(self))
         THEN {Panic(StackRest(self), "Cannot convert type to boolean")}
         ELSE LET time == fraction_time_to_int(StackTop(self).val)
                  s1 == StackRest(self)
              IN {[create_event(
                      [s1 EXCEPT !.current_transact =
                                     Some([NewTransact(r) EXCEPT !.serial = s1.n_generate + 1]),
                                 !.n_generate = @ + 1],
                      nearest_event.instruction_id,
                      s1.current_time + time,
                      None)
                   EXCEPT !.current_instruction = nearest_event.instruction_id + 1]
                  : r \in RandVals}
    ELSE {[self EXCEPT !.current_instruction = nearest_event.instruction_id + 1]}

perform_closest(self) ==
    IF self.events = <<>>
    THEN {self}
    ELSE UNION {
        LET nearest_event == self.events[i]
            s1 == [self EXCEPT
                      !.events = RemoveAt(@, i),
                      !.current_time = nearest_event.wake_time,
                      !.current_transact = nearest_event.transact,
                      !.popped = Append(@, [event |-> nearest_event,
                                           index |-> i,
                                           queue |-> self.events,
                                           clock |-> self.current_time])]
        IN IF Instr(nearest_event.instruction_id).op \in {"Generate", "Advance"}
           THEN UNION {Resume(s2, nearest_event)
                       : s2 \in process_from_to(s1, Instr(nearest_event.instruction_id).arg,
                                                nearest_event.instruction_id)}
           ELSE {s1}
        : i \in PopCandidates(self.events)}

\* a generate whose event names the instruction behind the Generate
generate_behind(self, time) ==
    perform_closest(create_event(self, self.current_instruction + 1,
                                 self.current_time + time, None))

generate(self, time) ==
    perform_closest(create_event(self, self.current_instruction,
                                 self.current_time + time, None))

\* an advance that schedules at `time` instead of current_time + time
advance_absolute(self, time) ==
    perform_closest(create_event(self, self.current_instruction, time,
                                 self.current_transact))

\* an advance that schedules its event without the transact
advance_drops_transact(self, time) ==
    perform_closest(create_event(self, self.current_instruction,
                                 self.current_time + time, None))

advance(self, time) ==
    perform_closest(create_event(self, self.current_instruction,
                                 self.current_time + time,
                                 self.current_transact))

\* a saturating subtraction
SubStartsSaturating(starts, count) == IF count > starts THEN 0 ELSE starts - count

\* self.start_entities -= count: aborts with checked arithmetic, wraps without
SubStarts(starts, count) == (starts - count) % WrapAt

\* a terminate that leaves the terminated transact installed
terminate_keeps_transact(self, count) ==
    IF count > self.start_entities /\ overflow_checks
    THEN {Panic(self, "attempt to subtract with overflow")}
    ELSE LET s1 == [self EXCEPT !.start_entities = SubStarts(@, count),
                                !.n_terminate = @ + 1]
         IN IF Len(s1.events) > 0 /\ s1.start_entities > 0
            THEN perform_closest(s1)
            ELSE LET s2 == [s1 EXCEPT !.current_instruction = @ + 1]
                 IN {IF s2.start_entities = 0 /\ s2.zeroed = None
                     THEN [s2 EXCEPT !.zeroed = Some(Observable(s2))]
                     ELSE s2}

\* a terminate that calls the scheduler whenever events remain
terminate_ignores_starts(self, count) ==
    IF count > self.start_entities /\ overflow_checks
    THEN {Panic(self, "attempt to subtract with overflow")}
    ELSE LET s1 == [self EXCEPT !.start_entities = SubStarts(@, count),
                                !.current_transact = None,
                                !.n_terminate = @ + 1]
         IN IF Len(s1.events) > 0
            THEN perform_closest(s1)
            ELSE {[s1 EXCEPT !.current_instruction = @ + 1]}

terminate(self, count) ==
    IF count > self.start_entities /\ overflow_checks
    THEN {Panic(self, "attempt to subtract with overflow")}
    ELSE LET s1 == [self EXCEPT !.start_entities = SubStarts(@, count),
                                !.current_transact = None,
                                !.n_terminate = @ + 1]
         IN IF Len(s1.events) > 0 /\ s1.start_entities > 0
            THEN perform_closest(s1)
            ELSE LET s2 == [s1 EXCEPT !.current_instruction = @ + 1]
                 IN {IF s2.start_entities = 0 /\ s2.zeroed = None
                     THEN [s2 EXCEPT !.zeroed = Some(Observable(s2))]
                     ELSE s2}

process_instruction(self) ==
    LET ins == Instr(self.current_instruction)
        empty == self.stack = <<>>
        top == StackTop(self)
        rest == StackRest(self)
        underflow == {Panic(self, "Stack is empty, but trying to pop")}
        badtype == {Panic(rest, "Cannot convert type to boolean")}
    IN CASE ins.op = "Generate" ->
                IF empty THEN underflow
                ELSE IF ~IsFloat(top) THEN badtype
                ELSE generate(rest, fraction_time_to_int(top.val))
         [] ins.op = "Advance" ->
                IF empty THEN underflow
                ELSE IF ~IsFloat(top) THEN badtype
                ELSE advance(rest, fraction_time_to_int(top.val))
         [] ins.op = "Terminate" ->
                IF empty THEN underflow
                ELSE IF ~IsUnsigned(top) THEN badtype
                ELSE terminate(rest, top.val)
         [] ins.op = "Print" -> {print(self, ins.arg)}
         [] ins.op = "PrintClock" -> {print_clock(self)}
         [] ins.op = "Transfer" -> {transfer(self, ins.arg)}
         [] ins.op = "TestVar" ->
                IF empty THEN underflow
                ELSE IF ~IsBoolean(top) THEN badtype
                ELSE {test_var(rest, ins.arg, top.val = 1)}
         [] ins.op = "SaveValue" ->
                IF empty THEN underflow
                ELSE {save_value(rest, ins.arg, top)}
         [] ins.op = "Push" -> {push(self, ins.arg)}

(***************************************************************************)
(* The programs the interpreter is run on.  build_interpreter takes the    *)
(* code and the memory image and sets start_entities to 15; the scenario   *)
(* programs are also run with other START counts.                          *)
(***************************************************************************)
DefaultStarts == 15

\* the Float that holds n milliseconds, and one that holds n and a half
Ms(n) == (n * FloatDen) \div 1000
MsHalf(n) == Ms(n) + (FloatDen \div 2000)

Prog(name, code, mem, starts) ==
    [name |-> name, code |-> code, memory |-> mem, starts |-> starts]

\* S1: one Generate, every transact terminates at once
S1Code == <<Push(0), Generate(0), Push(1), Terminate(0)>>
S1(t, n) == Prog("S1", S1Code, <<Float(t), UnsignedInteger(1)>>, n)

\* S2: Generate, Advance, PrintClock, Terminate
S2Code == <<Push(0), Generate(0), Transfer(3), Push(1), Advance(3), PrintClock,
            Push(2), Terminate(5)>>
S2(g, d, n) == Prog("S2", S2Code, <<Float(g), Float(d), UnsignedInteger(1)>>, n)

\* S3 (b = TRUE) and S4 (b = FALSE): TestVar
S34Code == <<Push(0), TestVar(4), PrintClock, Push(1), Terminate(3)>>
S34(b) == Prog(IF b THEN "S3" ELSE "S4", S34Code, <<Boolean(b), UnsignedInteger(1)>>, 1)

\* S5: SaveValue one past the end of memory
S5Code == <<Push(0), SaveValue(1), Push(1), Terminate(0)>>
S5 == Prog("S5", S5Code, <<UnsignedInteger(7)>>, 1)

\* SaveValue(i) on a memory of m cells, then Print and PrintClock
SaveCode(i) == <<Push(0), SaveValue(i), Print_(0), PrintClock>>
SaveMem(m) == [k \in 1..m |-> IF k = 1 THEN UnsignedInteger(7) ELSE Integer(k)]
Save(i, m) == Prog("Save", SaveCode(i), SaveMem(m), 1)

\* two Generate blocks whose events fall on the same wake times
TieCode == <<Push(0), Generate(0), Push(0), Generate(2), Push(1), Terminate(4)>>
Tie(t, n) == Prog("Tie", TieCode, <<Float(t), UnsignedInteger(1)>>, n)

\* a Generate whose resumption prefix [1, 7) holds a Terminate
NestedCode == <<Transfer(6), Push(0), PrintClock, Push(1), PrintClock, Terminate(3),
                Push(0), Generate(1)>>
Nested(t, n) == Prog("Nested", NestedCode, <<Float(t), UnsignedInteger(1)>>, n)

\* a Generate that is dispatched again after every arrival: it never terminates
LoopCode == <<Push(0), Generate(0), Transfer(0)>>
Loop(t) == Prog("Loop", LoopCode, <<Float(t)>>, 1)

\* a Generate whose prefix [0, 2) holds two Push instructions
TwoPushCode == <<Push(1), Push(0), Generate(0), Push(2), Terminate(3)>>
TwoPush(t, u, n) ==
    Prog("TwoPush", TwoPushCode, <<Float(t), Float(u), UnsignedInteger(1)>>, n)

\* the program of S3 with a condition that is no Boolean
S3Bad == Prog("S3Bad", S34Code, <<UnsignedInteger(1), UnsignedInteger(1)>>, 1)

\* build_test_interpreter()
ExampleCode == <<Push(1), SaveValue(0), Push(0), Generate(2), Transfer(5), Push(2),
                 Advance(5), Push(4), TestVar(10), PrintClock, Push(3), Terminate(8),
                 Push(3), Terminate(10)>>
ExampleMemory == <<UnsignedInteger(0), Float(Ms(10)), Float(Ms(20)), UnsignedInteger(1),
                   Boolean(FALSE)>>
Example == Prog("Example", ExampleCode, ExampleMemory, DefaultStarts)

Programs ==
    {S1(t, n) : t \in {0 - Ms(5), 0, Ms(5), Ms(10), MsHalf(10)}, n \in 1..MaxStarts}
    \cup {S2(g, d, n) : g \in {Ms(5), Ms(10)}, d \in {0, Ms(5), MsHalf(10), Ms(20)}, n \in 1..2}
    \cup {S34(b) : b \in BOOLEAN}
    \cup {S5}
    \cup {Save(i, m) : i \in 0..3, m \in 1..2}
    \cup {Tie(t, n) : t \in {Ms(5)}, n \in 1..MaxStarts}
    \cup {Nested(t, n) : t \in {Ms(5)}, n \in 1..2}
    \cup {Loop(Ms(100))}
    \cup {TwoPush(Ms(5), Ms(20), n) : n \in 1..2}
    \cup {S3Bad}
    \cup {Example}

(***************************************************************************)
(* The state machine.                                                      *)
(***************************************************************************)
Init ==
    /\ program \in Programs
    /\ overflow_checks \in BOOLEAN
    /\ instructions = program.code
    /\ current_instruction = 0
    /\ current_transact = None
    /\ start_entities = program.starts
    /\ current_time = 0
    /\ events = <<>>
    /\ memory = program.memory
    /\ stack = <<>>
    /\ stdout = <<>>
    /\ panicked = ""
    /\ popped = <<>>
    /\ replayed = <<>>
    /\ n_generate = 0
    /\ n_terminate = 0
    /\ zeroed = None

\* the condition of the `while` in process; a panic has ended the process
Running ==
    /\ panicked = ""
    /\ start_entities > 0
    /\ current_instruction < Len(instructions)

Install(s) ==
    /\ current_instruction' = s.current_instruction
    /\ current_transact' = s.current_transact
    /\ start_entities' = s.start_entities
    /\ current_time' = s.current_time
    /\ events' = s.events
    /\ memory' = s.memory
    /\ stack' = s.stack
    /\ stdout' = s.stdout
    /\ panicked' = s.panicked
    /\ popped' = s.popped
    /\ replayed' = s.replayed
    /\ n_generate' = s.n_generate
    /\ n_terminate' = s.n_terminate
    /\ zeroed' = s.zeroed
    /\ UNCHANGED <<instructions, overflow_checks, program>>

\* one iteration of the loop in process: the instruction at current_instruction
\* is executed to completion
Dispatch ==
    /\ current_time <= MaxClock
    /\ \E s \in process_instruction(Self) : Install(s)

\* the arms of the `match` in process_instruction, taken from the loop in process
StepGenerate ==
    /\ Running
    /\ Instr(current_instruction).op = "Generate"
    /\ Dispatch

StepAdvance ==
    /\ Running
    /\ Instr(current_instruction).op = "Advance"
    /\ Dispatch

StepTerminate ==
    /\ Running
    /\ Instr(current_instruction).op = "Terminate"
    /\ Dispatch

StepPrint ==
    /\ Running
    /\ Instr(current_instruction).op = "Print"
    /\ Dispatch

StepPrintClock ==
    /\ Running
    /\ Instr(current_instruction).op = "PrintClock"
    /\ Dispatch

StepTransfer ==
    /\ Running
    /\ Instr(current_instruction).op = "Transfer"
    /\ Dispatch

StepTestVar ==
    /\ Running
    /\ Instr(current_instruction).op = "TestVar"
    /\ Dispatch

StepSaveValue ==
    /\ Running
    /\ Instr(current_instruction).op = "SaveValue"
    /\ Dispatch

StepPush ==
    /\ Running
    /\ Instr(current_instruction).op = "Push"
    /\ Dispatch

Next ==
    \/ StepGenerate
    \/ StepAdvance
    \/ StepTerminate
    \/ StepPrint
    \/ StepPrintClock
    \/ StepTransfer
    \/ StepTestVar
    \/ StepSaveValue
    \/ StepPush

Spec == Init /\ [][Next]_vars

\* process is a sequential loop: while its condition holds it takes its next step
LiveSpec == Spec /\ WF_vars(Next)

(***************************************************************************)
(* Properties.                                                             *)
(***************************************************************************)
Dequeues == 1..Len(popped)

\* C1: the simulation clock never decreases: every event the scheduler step
\* dequeues has a wake_time at or after the clock held just before the dequeue,
\* so the clock after a step is >= the clock before it.
C1_ClockNeverDecreases ==
    [][/\ current_time' >= current_time
       /\ \A k \in 1..Len(popped') : popped'[k].event.wake_time >= popped'[k].clock]_vars

\* a step dequeued an event from a queue of several, and the clock moved forward
C1_Witness ==
    \E k \in Dequeues :
        /\ Len(popped[k].queue) >= 2
        /\ popped[k].event.wake_time > popped[k].clock
        /\ current_time >= popped[k].event.wake_time

\* C2: between events of distinct wake-times the earlier one is dequeued first:
\* at a dequeue no pending event has a strictly smaller wake_time than the
\* event dequeued.
C2_EarliestDequeuedFirst ==
    \A k \in Dequeues :
        \A j \in 1..Len(popped[k].queue) :
            popped[k].queue[j].wake_time # popped[k].event.wake_time
                => popped[k].queue[j].wake_time > popped[k].event.wake_time

\* the event dequeued was not the oldest of the queue and the queue held later events
C2_Witness ==
    \E k \in Dequeues :
        /\ popped[k].index > 1
        /\ \E j \in 1..Len(popped[k].queue) :
               popped[k].queue[j].wake_time > popped[k].event.wake_time

\* C3: of two pending events with equal wake_time the one enqueued first is
\* dequeued first (the queue is kept in enqueue order, so no event before the
\* dequeued one has its wake_time).
C3_FifoOnTies ==
    \A k \in Dequeues :
        \A j \in 1..(popped[k].index - 1) :
            popped[k].queue[j].wake_time # popped[k].event.wake_time

\* C4: remaining_starts never increases (it never wraps around), and a
\* Terminate that pops a count greater than remaining_starts is fatal.
C4_StartsNeverIncrease ==
    [][/\ start_entities' <= start_entities
       /\ (/\ Running
           /\ Instr(current_instruction).op = "Terminate"
           /\ stack # <<>>
           /\ IsUnsigned(StackTop(Self))
           /\ StackTop(Self).val > start_entities) => panicked' # ""]_vars

\* C5 as claimed: after a terminate call has left remaining_starts = 0 the
\* clock, memory, stack, event queue, current_transact and output never change.
C5_NothingAfterZero ==
    zeroed # None => Observable(Self) = zeroed[1]

\* the Terminate at current_instruction is dispatched by the loop of process
\* and its count is the whole of remaining_starts
TopLevelTerminateToZero ==
    /\ Running
    /\ Instr(current_instruction).op = "Terminate"
    /\ stack # <<>>
    /\ IsUnsigned(StackTop(Self))
    /\ StackTop(Self).val = start_entities

\* C5 amended: a Terminate dispatched by the outer loop that brings
\* remaining_starts to 0 does not invoke the scheduler step even if events
\* are pending, only pops its count, clears current_transact and advances pc
\* by one, and no step is taken afterwards.
C5_TopLevelZeroHalts ==
    [][/\ TopLevelTerminateToZero =>
            /\ start_entities' = 0
            /\ popped' = <<>>
            /\ events' = events
            /\ current_time' = current_time
            /\ memory' = memory
            /\ stdout' = stdout
            /\ stack' = SubSeq(stack, 1, Len(stack) - 1)
            /\ current_transact' = None
            /\ current_instruction' = current_instruction + 1
            /\ panicked' = ""
       /\ start_entities > 0]_vars

\* a top-level Terminate has brought remaining_starts to 0 with events pending
C5_Witness ==
    /\ start_entities = 0
    /\ events # <<>>
    /\ popped = <<>>
    /\ panicked = ""
    /\ zeroed = Some(Observable(Self))
    /\ Instr(current_instruction - 1).op = "Terminate"

\* the whole milliseconds held by memory cell a of the program as built
MsOf(a) ==
    CHOOSE k \in 0..1000 : Ms(k) <= MemAt(program.memory, a).val
                           /\ MemAt(program.memory, a).val < Ms(k + 1)

IsS1 == program.name = "S1" /\ MemAt(program.memory, 0).val >= Ms(1)

\* what holds of S1 in every state: no output, the k-th generation at clock k*t
C6_S1Invariant ==
    IsS1 =>
        /\ stdout = <<>>
        /\ panicked = ""
        /\ current_time = n_generate * MsOf(0)
        /\ n_generate <= program.starts
        /\ ~Running =>
              /\ start_entities = 0
              /\ n_generate = program.starts
              /\ n_terminate = program.starts
              /\ current_time = program.starts * MsOf(0)

\* C6: scenario S1 with interval t > 0 ms and START N: nothing is output, the
\* k-th transact is generated at clock k*t, and the run halts with
\* remaining_starts = 0 after exactly N generations and N Terminates at clock N*t.
C6_S1 == []C6_S1Invariant /\ (IsS1 => <>(~Running))

\* S1 with START >= 2 has halted after as many generations
C6_Witness ==
    /\ IsS1
    /\ program.starts >= 2
    /\ ~Running
    /\ n_generate = program.starts
    /\ current_time = program.starts * MsOf(0)
    /\ current_time > 0

IsS2 ==
    /\ program.name = "S2"
    /\ program.starts = 1
    /\ MemAt(program.memory, 0).val >= Ms(1)
    /\ MemAt(program.memory, 1).val >= Ms(1)

ClockLine(t) == [line |-> "Clock", val |-> t]

\* what holds of S2 in every state: at most the one line, printed at clock g+d
C7_S2Invariant ==
    IsS2 =>
        /\ panicked = ""
        /\ stdout \in {<<>>, <<ClockLine(MsOf(0) + MsOf(1))>>}
        /\ ~Running =>
              /\ stdout = <<ClockLine(MsOf(0) + MsOf(1))>>
              /\ start_entities = 0
              /\ n_terminate = 1
              /\ current_instruction = Len(instructions)

\* C7: scenario S2 with START 1, interval g > 0 and delay d > 0: the output is
\* exactly the one line "Clock g+d" and the VM halts after the Terminate,
\* whichever of several events of equal wake_time is dequeued first.
C7_S2 == []C7_S2Invariant /\ (IsS2 => <>(~Running))

\* S2 has halted after printing the clock, more than one arrival after the start
C7_Witness ==
    /\ IsS2
    /\ ~Running
    /\ stdout = <<ClockLine(MsOf(0) + MsOf(1))>>
    /\ n_generate >= 2

IsS5 == program.name = "S5"
Seven == UnsignedInteger(7)

IsS4 == program.name = "S4"

\* C9 as claimed: S4 emits no output and halts normally, without a fatal error.
C9_S4AsClaimed ==
    (IsS4 /\ ~Running) => (stdout = <<>> /\ panicked = "")

\* C9 amended: S4 emits no output and ends in the fatal stack underflow:
\* TestVar jumps to the Terminate at index 4, past the Push(1) that supplies
\* its count, so the Terminate pops an empty stack.
C9_S4 ==
    IsS4 =>
        /\ stdout = <<>>
        /\ n_terminate = 0
        /\ ~Running =>
              /\ panicked = "Stack is empty, but trying to pop"
              /\ current_instruction = 4
              /\ start_entities = 1
              /\ stack = <<>>

\* S4 has aborted at its Terminate
C9_Witness ==
    /\ IsS4
    /\ panicked = "Stack is empty, but trying to pop"
    /\ current_instruction = 4

\* C10: SaveValue(i) with popped value v overwrites cell i alone if
\* i < len(memory), appends v if i = len(memory), and is fatal with memory
\* unchanged if i > len(memory); in the two non-fatal cases pc advances by 1.
C10_SaveValue ==
    [][(/\ Running
        /\ Instr(current_instruction).op = "SaveValue"
        /\ stack # <<>>) =>
            LET i == Instr(current_instruction).arg
                v == StackTop(Self)
            IN /\ i < Len(memory) =>
                    /\ Len(memory') = Len(memory)
                    /\ memory'[i + 1] = v
                    /\ \A a \in 1..Len(memory) : a # i + 1 => memory'[a] = memory[a]
                    /\ current_instruction' = current_instruction + 1
                    /\ panicked' = ""
               /\ i = Len(memory) =>
                    /\ Len(memory') = Len(memory) + 1
                    /\ memory'[i + 1] = v
                    /\ \A a \in 1..Len(memory) : memory'[a] = memory[a]
                    /\ current_instruction' = current_instruction + 1
                    /\ panicked' = ""
               /\ i > Len(memory) =>
                    /\ panicked' # ""
                    /\ memory' = memory]_vars

\* a SaveValue past the end of memory has aborted the run
C10_Witness ==
    /\ panicked = "Cannot access variable"
    /\ Instr(current_instruction).op = "SaveValue"
    /\ Instr(current_instruction).arg > Len(memory)

(***************************************************************************)
(* Transacts across suspension.                                            *)
(***************************************************************************)
LastPopped == popped[Len(popped)]

\* the outer loop is about to dispatch an Advance whose operand is a Float
TopLevelAdvance ==
    /\ Running
    /\ Instr(current_instruction).op = "Advance"
    /\ stack # <<>>
    /\ IsFloat(StackTop(Self))

\* the event that this Advance enqueues
AdvanceEvent ==
    [instruction_id |-> current_instruction,
     wake_time |-> current_time + fraction_time_to_int(StackTop(Self).val),
     transact |-> current_transact]

\* C11: the event an Advance enqueues carries the transact that is current
\* when the Advance executes (all parameter slots); queued events are not
\* altered while other events are resumed; when an Advance event is dequeued
\* and resumed, current_transact is the transact the event carries and pc is
\* the Advance's index + 1; events of a Generate always carry no transact.
C11_AdvanceKeepsTransact ==
    [][/\ TopLevelAdvance =>
            \/ \E i \in 1..Len(events') : events'[i] = AdvanceEvent
            \/ \E k \in 1..Len(popped') : popped'[k].event = AdvanceEvent
       /\ \A i \in 1..Len(events') :
            IF Instr(events'[i].instruction_id).op = "Generate"
            THEN events'[i].transact = None
            ELSE \/ \E j \in 1..Len(events) : events[j] = events'[i]
                 \/ TopLevelAdvance /\ events'[i] = AdvanceEvent
       /\ \A k \in 1..Len(popped') :
            Instr(popped'[k].event.instruction_id).op = "Generate"
                => popped'[k].event.transact = None
       /\ (/\ popped' # <<>>
           /\ panicked' = ""
           /\ Instr(LastPopped'.event.instruction_id).op = "Advance") =>
                /\ current_transact' = LastPopped'.event.transact
                /\ current_instruction' = LastPopped'.event.instruction_id + 1]_vars

\* an Advance event has been resumed with its transact while another Advance
\* event, carrying a younger transact, was pending and stays pending
C11_Witness ==
    /\ popped # <<>>
    /\ Instr(LastPopped.event.instruction_id).op = "Advance"
    /\ LastPopped.event.transact # None
    /\ current_transact = LastPopped.event.transact
    /\ current_transact[1].serial < n_generate
    /\ \E i \in 1..Len(events) :
            /\ Instr(events[i].instruction_id).op = "Advance"
            /\ events[i].transact # None
            /\ events[i].transact[1].params # current_transact[1].params
            /\ \E j \in 1..Len(LastPopped.queue) : LastPopped.queue[j] = events[i]

(***************************************************************************)
(* Time operands.                                                          *)
(***************************************************************************)
\* the outer loop is about to dispatch a Generate or an Advance whose operand
\* is a negative Float
NegativeTimeOperand ==
    /\ Running
    /\ Instr(current_instruction).op \in {"Generate", "Advance"}
    /\ stack # <<>>
    /\ IsFloat(StackTop(Self))
    /\ StackTop(Self).val < 0

\* C12: a Generate or Advance that pops a negative time operand aborts the
\* run; it enqueues no event and leaves the clock unchanged.
C12_NegativeTimeRejected ==
    [][NegativeTimeOperand =>
            /\ panicked' # ""
            /\ events' = events
            /\ current_time' = current_time]_vars

(***************************************************************************)
(* Resumption prefixes.                                                    *)
(***************************************************************************)
\* <<from, from + 1, ..., to - 1>>
Ascending(from, to) == [k \in 1..(to - from) |-> from + k - 1]

\* C13: when the last step resumed one event of a Generate(begin) or
\* Advance(begin) at index id, the instructions re-executed before the
\* resumption logic are exactly begin, begin + 1, ..., id - 1, each once and in
\* this order, for every prefix length.
C13_PrefixRunsOnce ==
    (/\ Len(popped) = 1
     /\ panicked = ""
     /\ Instr(popped[1].event.instruction_id).op \in {"Generate", "Advance"}) =>
        replayed = Ascending(Instr(popped[1].event.instruction_id).arg,
                             popped[1].event.instruction_id)

\* every Generate, Advance and Terminate directly follows a Push, and the
\* prefix of a Generate or Advance is that Push alone
OnePushPrefix ==
    \A i \in 0..(Len(instructions) - 1) :
        Instr(i).op \in {"Generate", "Advance", "Terminate"} =>
            /\ i >= 1
            /\ Instr(i - 1).op = "Push"
            /\ Instr(i).op \in {"Generate", "Advance"} => Instr(i).arg = i - 1

\* C14: in a program with one-Push prefixes the operand stack is empty
\* whenever the last step has ended by resuming an event (pc = the resumed
\* index + 1), for an Advance as well as for a Generate; the stack does not
\* grow with the number of resumptions.
C14_StackEmptyAfterResumption ==
    (/\ OnePushPrefix
     /\ popped # <<>>
     /\ panicked = ""
     /\ current_instruction = LastPopped.event.instruction_id + 1) =>
        stack = <<>>

(***************************************************************************)
(* Generators.                                                             *)
(***************************************************************************)
GenerateIds == {i \in 0..(Len(instructions) - 1) : Instr(i).op = "Generate"}

\* one Generate, which the outer loop passes once: every jump target and
\* every Advance lies behind it, so the pc never comes back to it
GenerateDispatchedOnce ==
    /\ Cardinality(GenerateIds) = 1
    /\ \A i \in 0..(Len(instructions) - 1) : \A g \in GenerateIds :
            /\ Instr(i).op \in {"Transfer", "TestVar"} => Instr(i).arg > g
            /\ Instr(i).op = "Advance" => i > g

PendingFor(id) == {i \in 1..Len(events) : events[i].instruction_id = id}

\* the last step has resumed one event, of the Generate at its index
ResumedGenerate ==
    /\ Len(popped) = 1
    /\ panicked = ""
    /\ Instr(popped[1].event.instruction_id).op = "Generate"

\* C15: a resumption of the Generate event at index id mints one new
\* transact (parameter 0 an Integer, the others empty), installs it as
\* current_transact, enqueues exactly one new event (id, clock + t, no
\* transact) with t the re-pushed time operand, and sets pc = id + 1; in a
\* program whose Generate is dispatched by the outer loop only once, after
\* that dispatch the queue always holds exactly one event of that Generate.
C15_GenerateResumption ==
    [][/\ (ResumedGenerate' /\ OnePushPrefix) =>
            LET id == popped'[1].event.instruction_id
                t == fraction_time_to_int(MemAt(memory, Instr(id - 1).arg).val)
                direct == IF Instr(current_instruction).op \in {"Generate", "Advance"}
                          THEN 1 ELSE 0
            IN /\ n_generate' = n_generate + 1
               /\ current_transact' # None
               /\ current_transact'[1].serial = n_generate'
               /\ current_transact'[1].params[1].tag = "Integer"
               /\ \A k \in 2..NParams : current_transact'[1].params[k] = GpssEmpty
               /\ Len(events') = Len(events) + direct
               /\ events'[Len(events')] = [instruction_id |-> id,
                                           wake_time |-> current_time' + t,
                                           transact |-> None]
               /\ current_instruction' = id + 1
       /\ (GenerateDispatchedOnce /\ n_generate' >= 1 /\ panicked' = "") =>
            \A g \in GenerateIds : Cardinality(PendingFor(g)') = 1]_vars

\* the only Generate of a program has been resumed for the second time, by a
\* Terminate, and one event of it is pending
C15_Witness ==
    /\ GenerateDispatchedOnce
    /\ OnePushPrefix
    /\ ResumedGenerate
    /\ n_generate = 2
    /\ n_terminate >= 1
    /\ Cardinality(PendingFor(popped[1].event.instruction_id)) = 1

(***************************************************************************)
(* The instructions that never call the scheduler.                         *)
(***************************************************************************)
\* the outer loop is about to dispatch the instruction `op`
TopLevel(op) == Running /\ Instr(current_instruction).op = op

SchedulerUntouched ==
    /\ popped' = <<>>
    /\ replayed' = <<>>
    /\ current_time' = current_time
    /\ events' = events
    /\ current_transact' = current_transact
    /\ start_entities' = start_entities
    /\ n_generate' = n_generate
    /\ n_terminate' = n_terminate

Pops(n) == Len(stack) >= n /\ stack' = SubSeq(stack, 1, Len(stack) - n)

\* C16: Push, SaveValue, Print, PrintClock, Transfer and TestVar never call
\* the scheduler: they leave clock, event queue, current_transact and
\* remaining_starts unchanged and change only what their contract names (Push:
\* stack and pc; SaveValue: stack, memory and pc; Print and PrintClock: output
\* and pc; Transfer: pc; TestVar: stack and pc); a fatal error changes nothing
\* but the popped operand.
C16_PureInstructions ==
    [][/\ (\E op \in {"Push", "SaveValue", "Print", "PrintClock", "Transfer", "TestVar"} :
                TopLevel(op)) => SchedulerUntouched
       /\ TopLevel("Push") =>
            /\ memory' = memory /\ stdout' = stdout
            /\ \/ /\ panicked' = ""
                  /\ stack' = Append(stack, MemAt(memory, Instr(current_instruction).arg))
                  /\ current_instruction' = current_instruction + 1
               \/ panicked' # "" /\ stack' = stack
                     /\ current_instruction' = current_instruction
       /\ TopLevel("SaveValue") =>
            /\ stdout' = stdout
            /\ \/ panicked' = "" /\ Pops(1)
                     /\ current_instruction' = current_instruction + 1
               \/ panicked' # "" /\ memory' = memory /\ (stack = <<>> \/ Pops(1))
                     /\ current_instruction' = current_instruction
       /\ (TopLevel("Print") \/ TopLevel("PrintClock")) =>
            /\ memory' = memory /\ stack' = stack
            /\ \/ panicked' = "" /\ Len(stdout') = Len(stdout) + 1
                     /\ SubSeq(stdout', 1, Len(stdout)) = stdout
                     /\ current_instruction' = current_instruction + 1
               \/ panicked' # "" /\ stdout' = stdout
                     /\ current_instruction' = current_instruction
       /\ TopLevel("Transfer") =>
            /\ memory' = memory /\ stack' = stack /\ stdout' = stdout
            /\ panicked' = ""
            /\ current_instruction' = Instr(current_instruction).arg
       /\ TopLevel("TestVar") =>
            /\ memory' = memory /\ stdout' = stdout
            /\ \/ panicked' = "" /\ Pops(1)
                     /\ current_instruction' \in {current_instruction + 1,
                                                 Instr(current_instruction).arg}
               \/ panicked' # "" /\ (stack = <<>> \/ Pops(1))
                     /\ current_instruction' = current_instruction]_vars

\* a Transfer has jumped while events were pending and a transact was current
C16_Witness ==
    /\ popped = <<>>
    /\ panicked = ""
    /\ events # <<>>
    /\ current_transact # None
    /\ current_time > 0
    /\ \E i \in 0..(Len(instructions) - 1) :
            Instr(i).op = "Transfer" /\ Instr(i).arg = current_instruction

(***************************************************************************)
(* TestVar and scenario S3.                                                *)
(***************************************************************************)
IsS3 == program.name = "S3"

\* what holds of S3 in every state: no error, at most the line Clock 0, and
\* the run stops behind the Terminate with the counter at 0
C17_S3Invariant ==
    IsS3 =>
        /\ panicked = ""
        /\ stdout \in {<<>>, <<ClockLine(0)>>}
        /\ current_time = 0
        /\ ~Running =>
                /\ stdout = <<ClockLine(0)>>
                /\ start_entities = 0
                /\ n_terminate = 1
                /\ current_instruction = Len(instructions)

\* C17: TestVar(else_pc) pops one value, which must be a Boolean; on true
\* the pc advances by one, on false it becomes else_pc, and nothing else
\* changes.  Scenario S3 prints exactly "Clock 0" and halts with
\* remaining_starts = 0.
C17_TestVar ==
    /\ [][(TopLevel("TestVar") /\ stack # <<>>) =>
            IF IsBoolean(StackTop(Self))
            THEN /\ panicked' = ""
                 /\ Pops(1)
                 /\ current_instruction' =
                        IF StackTop(Self).val = 1
                        THEN current_instruction + 1
                        ELSE Instr(current_instruction).arg
                 /\ memory' = memory
                 /\ stdout' = stdout
                 /\ SchedulerUntouched
            ELSE panicked' # ""]_vars
    /\ []C17_S3Invariant
    /\ (IsS3 => <>(~Running))

\* S3 has halted after printing the clock
C17_Witness ==
    /\ IsS3
    /\ ~Running
    /\ stdout = <<ClockLine(0)>>
    /\ start_entities = 0

(***************************************************************************)
(* The life of a transact.                                                 *)
(***************************************************************************)
\* the events that carry a transact
Carrying == {i \in 1..Len(events) : events[i].transact # None}

\* the transacts that are somewhere: installed or carried by a pending event
Live ==
    {events[i].transact[1].serial : i \in Carrying}
    \cup (IF current_transact = None THEN {} ELSE {current_transact[1].serial})

\* no transact is in two places
OnePlaceEach ==
    /\ \A i, j \in Carrying :
            events[i].transact[1].serial = events[j].transact[1].serial => i = j
    /\ \A i \in Carrying :
            current_transact # None =>
                events[i].transact[1].serial # current_transact[1].serial

\* the transact that the step about to be taken terminates
Terminated ==
    IF TopLevel("Terminate") /\ current_transact # None
    THEN {current_transact[1].serial}
    ELSE {}

\* C18: in a program whose transacts go from the Generate through Advances to
\* a Terminate, after every step each transact generated and not terminated
\* is in exactly one place, current_transact or one pending event: the
\* transacts in place are those of the state before, less the one a Terminate
\* destroys, plus the ones just generated; none is both current and carried
\* by an event, and no two events carry the same transact.
C18_TransactLifecycle ==
    [][(GenerateDispatchedOnce /\ panicked' = "") =>
            /\ OnePlaceEach'
            /\ Live' = (Live \ Terminated) \cup ((n_generate + 1)..n_generate')
            /\ Cardinality(Live') = n_generate' - n_terminate']_vars

\* a transact is installed while two others wait in Advance events and at
\* least one has been terminated
C18_Witness ==
    /\ GenerateDispatchedOnce
    /\ panicked = ""
    /\ current_transact # None
    /\ Cardinality(Carrying) >= 2
    /\ n_terminate >= 1
    /\ Cardinality(Live) = Cardinality(Carrying) + 1

(***************************************************************************)
(* What events point at.                                                   *)
(***************************************************************************)
Resumable(e) ==
    /\ e.instruction_id \in 0..(Len(instructions) - 1)
    /\ Instr(e.instruction_id).op \in {"Generate", "Advance"}

\* C19: every event in the queue, and every event dequeued, names an
\* instruction that is a Generate or an Advance, so perform_closest never
\* finds another instruction at a resumed index.
C19_EventsAreResumable ==
    /\ \A i \in 1..Len(events) : Resumable(events[i])
    /\ \A k \in Dequeues : Resumable(popped[k].event)

\* an event of a Generate and an event of an Advance are queued after an
\* event has been resumed
C19_Witness ==
    /\ popped # <<>>
    /\ \E i, j \in 1..Len(events) :
            /\ Instr(events[i].instruction_id).op = "Generate"
            /\ Instr(events[j].instruction_id).op = "Advance"

(***************************************************************************)
(* The built-in example program.                                           *)
(***************************************************************************)
IsExample == program.name = "Example"

\* what holds of the example in every state: no error, no output, the pc
\* never at the PrintClock, one start used up per Terminate, and at the halt
\* fifteen Terminates, no start left and the clock at 170 ms
C20_ExampleInvariant ==
    IsExample =>
        /\ panicked = ""
        /\ stdout = <<>>
        /\ current_instruction < Len(instructions) =>
                Instr(current_instruction).op # "PrintClock"
        /\ start_entities = DefaultStarts - n_terminate
        /\ current_time <= 170
        /\ ~Running =>
                /\ n_terminate = DefaultStarts
                /\ start_entities = 0
                /\ current_time = 170

\* C20: the built-in example (arrivals every 10 ms, Advance of 20 ms, 15
\* starts, memory[4] false) halts without a fatal error under every tie order:
\* after exactly 15 Terminates, with remaining_starts = 0 and the clock at
\* 170 ms, and it never executes PrintClock.
C20_Example ==
    /\ []C20_ExampleInvariant
    /\ (IsExample => <>(~Running))

\* the example has halted at 170 ms
C20_Witness ==
    /\ IsExample
    /\ ~Running
    /\ n_terminate = DefaultStarts
    /\ current_time = 170
    /\ events # <<>>

====
